---- MODULE Spec2Model ----
(***************************************************************************)
(* Playback controller of AnimatedVisualPlayer                             *)
(* (dev/AnimatedVisualPlayer/AnimatedVisualPlayer.cpp).                    *)
(*                                                                         *)
(* The player runs on one thread, but its methods are re-entered: setting  *)
(* a dependency property (IsPlaying, Duration, Diagnostics,                *)
(* IsAnimatedVisualLoaded) runs the property-changed callbacks of the      *)
(* application, which may call back into the player.  The model therefore  *)
(* keeps an explicit call stack.  A method is cut into steps at the calls  *)
(* it makes.  An action of the model is a call or an event together with   *)
(* every step it leads to, up to the point where the call stack is empty   *)
(* again or application code runs inside a property-changed callback (a    *)
(* "Notify" frame on top of the stack); the return of such a callback is   *)
(* the action that runs the interrupted methods on.                        *)
(*                                                                         *)
(* Progress values are fixed-point: the integer k stands for               *)
(* k/ProgressScale.  Durations are TimeSpan ticks (100 ns).  Layout,       *)
(* fallback content and automation are left out.                           *)
(***************************************************************************)
EXTENDS Integers, Sequences, FiniteSets, TLC

\* ------------------------------------------------------------------ bounds
\* Number of PlayAsync calls in a behaviour (explicit and implicit ones).
MaxCalls == 3
\* Nesting depth of application callbacks that call the player.
MaxReentry == 1
\* Number of PlayAsync calls the application makes in a behaviour without re-entrance.
MaxSerialCalls == 2
\* Progress resolution: progress k/ProgressScale, k in 0..ProgressScale.
ProgressScale == 2

\* ------------------------------------------------------- program constants
\* 20ms, in TimeSpan ticks of 100ns.
MinPlayTicks == 200000

\* ------------------------------------------------------------------ inputs
\* Progress arguments of PlayAsync and SetProgress: doubles, not only [0,1].
ProgressArgs == (0 - 1)..(ProgressScale + 1)
\* Values of the PlaybackRate property (negative plays in reverse).
PlaybackRates == {0 - 1, 1}
\* What the Source property can hold: nothing, a source whose animated visual
\* lasts 30.0001 ms or 2 s, a source whose TryCreateAnimatedVisual fails, and
\* a source whose animated visual is empty.
Sources == {"None", "Short", "Long", "Bad", "Empty"}
SourceDuration(s) == IF s = "Short" THEN 300001 ELSE IF s = "Long" THEN 20000000 ELSE 0

CallIds == 1..MaxCalls
\* The thread of the dispatcher, on which the player lives, and another one.
Threads == {"dispatcher", "other"}

VARIABLES
    plays,                      \* the AnimationPlay objects, by the call that made them
    calls,                      \* the IAsyncAction of each PlayAsync call
    coroutines,                 \* the threads of the coroutine of each PlayAsync call
    nextCall,                   \* number of PlayAsync calls made so far + 1
    m_nowPlaying,               \* 0 (null) or the current play
    m_playAsyncVersion,
    m_currentPlayFromProgress,
    Progress,                   \* the "Progress" scalar of m_progressPropertySet
    anim,                       \* the play whose key frame animation drives Progress (0: none)
    IsPlaying, Duration, Diagnostics, IsAnimatedVisualLoaded,
    AutoPlay, PlaybackRate, Source,
    m_animatedVisual, m_animatedVisualRoot, m_isUnloaded,
    stack,                      \* call stack, top first
    windowHidden,               \* the last visibility event was OnHiding
    inTree,                     \* between the Loaded and the Unloaded event
    failed,                     \* what went wrong in the last action: MUX_ASSERTs, use of a destroyed play
    ret                         \* the last method that returned in the last action

vars == << plays, calls, coroutines, nextCall, m_nowPlaying, m_playAsyncVersion, m_currentPlayFromProgress,
           Progress, anim, IsPlaying, Duration, Diagnostics, IsAnimatedVisualLoaded,
           AutoPlay, PlaybackRate, Source, m_animatedVisual, m_animatedVisualRoot,
           m_isUnloaded, stack, windowHidden, inTree, failed, ret >>

\* ------------------------------------------------------------ pure helpers
Min(x, y) == IF x < y THEN x ELSE y

\* No clamping.
Clamp_None(x) == x

\* std::clamp(static_cast<float>(x), 0.0F, 1.0F)
Clamp(x) == IF x < 0 THEN 0 ELSE IF x > ProgressScale THEN ProgressScale ELSE x

\* PlayAsync without its first boundary adjustment.
AdjustTo_None(from, to) == to

\* The two boundary adjustments of PlayAsync, applied in order to the raw arguments.
AdjustTo(from, to) == IF to = 0 /\ from > 0 THEN ProgressScale ELSE to
AdjustFrom(from, to) == IF to > 0 /\ from = ProgressScale THEN 0 ELSE from

\* durationAsProgress without the wrapping branch.
DurationAsProgress_NoWrap(from, to) == to - from

\* durationAsProgress of the AnimationPlay constructor.
DurationAsProgress(from, to) == IF from > to THEN (ProgressScale - from) + to ELSE to - from

\* m_playDuration: duration_cast to integral ticks truncates.
PlayDuration(from, to, ownerDuration) == (ownerDuration * DurationAsProgress(from, to)) \div ProgressScale

\* Start without a minimum duration.
IsTooShort_Never(playDuration) == FALSE

\* The test at the top of Start.
IsTooShort(playDuration) == playDuration < MinPlayTicks

\* The argument Stop passes to SetProgress.
StopProgress == m_currentPlayFromProgress

\* Whether Start pauses the new controller.
PausedAtStart(isPaused, isPausedBecauseHidden) == isPaused \/ isPausedBecauseHidden

\* ----------------------------------------------------------- play objects
\* reqFrom, reqTo: the arguments of the PlayAsync call; ownerDuration: the
\* owner's Duration when the play was constructed; controller: m_controller
\* is set; ctrl*: the state of that AnimationController; batch, token: m_batch
\* is set, its Completed handler is subscribed; lostHandlers: handlers still
\* subscribed to batches this play no longer refers to; signalled: the
\* awaiters are released; nStart, nComplete: calls of Start and Complete;
\* setPlaying: Start has called IsPlaying(true) for this play.
NoPlay == [ created |-> FALSE, destroyed |-> FALSE, reqFrom |-> 0, reqTo |-> 0,
            from |-> 0, to |-> 0, looped |-> FALSE,
            ownerDuration |-> 0, playDuration |-> 0,
            isPaused |-> FALSE, isPausedBecauseHidden |-> FALSE,
            controller |-> FALSE, ctrlPaused |-> FALSE, ctrlRate |-> 1, ctrlAtEnd |-> FALSE,
            batch |-> FALSE, token |-> FALSE, lostHandlers |-> 0,
            signalled |-> FALSE, nStart |-> 0, nComplete |-> 0, setPlaying |-> FALSE ]

\* AnimationPlay::AnimationPlay(owner, fromProgress, toProgress, looped)
NewPlay(rf, rt, from, to, looped, ownerDuration) ==
    [ NoPlay EXCEPT !.created = TRUE, !.reqFrom = rf, !.reqTo = rt,
                    !.from = from, !.to = to, !.looped = looped,
                    !.ownerDuration = ownerDuration,
                    !.playDuration = PlayDuration(from, to, ownerDuration) ]

\* ~AnimationPlay: the last shared_ptr to the play is gone.  Its fields are no
\* longer memory of the play; a handler left on a replaced batch stays subscribed.
\* The animation it started, if that still drives Progress, keeps its key
\* frames and its controller state.
Destroyed(pl, animating) ==
    IF animating
    THEN [ pl EXCEPT !.destroyed = TRUE ]
    ELSE [ NoPlay EXCEPT !.created = TRUE, !.destroyed = TRUE, !.lostHandlers = pl.lostHandlers ]

\* AnimationPlay::Pause
PlayPause(pl) ==
    [ pl EXCEPT !.isPaused = TRUE,
                !.ctrlPaused = IF pl.controller /\ ~pl.isPausedBecauseHidden THEN TRUE ELSE @ ]

\* Resume that does not look at the visibility pause.
PlayResume_IgnoresHidden(pl) ==
    [ pl EXCEPT !.isPaused = FALSE,
                !.ctrlPaused = IF pl.controller THEN FALSE ELSE @ ]

\* AnimationPlay::Resume
PlayResume(pl) ==
    [ pl EXCEPT !.isPaused = FALSE,
                !.ctrlPaused = IF pl.controller /\ ~pl.isPausedBecauseHidden THEN FALSE ELSE @ ]

\* AnimationPlay::OnHiding
PlayOnHiding(pl) ==
    IF ~pl.isPausedBecauseHidden
    THEN [ pl EXCEPT !.isPausedBecauseHidden = TRUE,
                     !.ctrlPaused = IF pl.controller /\ ~pl.isPaused THEN TRUE ELSE @ ]
    ELSE pl

\* AnimationPlay::OnUnhiding
PlayOnUnhiding(pl) ==
    IF pl.isPausedBecauseHidden
    THEN [ pl EXCEPT !.isPausedBecauseHidden = FALSE,
                     !.ctrlPaused = IF pl.controller /\ ~pl.isPaused THEN FALSE ELSE @ ]
    ELSE pl

\* A play that ignores the new playback rate.
PlaySetPlaybackRate_Ignored(pl, value) == pl

\* AnimationPlay::SetPlaybackRate
PlaySetPlaybackRate(pl, value) ==
    IF pl.controller THEN [ pl EXCEPT !.ctrlRate = value ] ELSE pl

\* The key frame values of the animation Start creates.
KeyFrameValues(pl) == {pl.from, pl.to} \cup (IF pl.from > pl.to THEN {ProgressScale, 0} ELSE {})

\* Start that makes a batch and subscribes to it for looped plays too.
PlayStartAnimation_AlwaysBatch(pl, playbackRate) ==
    [ pl EXCEPT !.controller = TRUE,
                !.ctrlPaused = PausedAtStart(pl.isPaused, pl.isPausedBecauseHidden),
                !.ctrlRate = playbackRate,
                !.ctrlAtEnd = playbackRate < 0,
                !.batch = TRUE,
                !.token = TRUE,
                !.lostHandlers = IF pl.token THEN Min(@ + 1, 2) ELSE @,
                !.nStart = Min(@ + 1, 2),
                !.setPlaying = TRUE ]

\* The else branch of Start: the animation, its batch and its controller.
PlayStartAnimation(pl, playbackRate) ==
    [ pl EXCEPT !.controller = TRUE,
                !.ctrlPaused = PausedAtStart(pl.isPaused, pl.isPausedBecauseHidden),
                !.ctrlRate = playbackRate,
                !.ctrlAtEnd = playbackRate < 0,
                !.batch = ~pl.looped,
                !.token = ~pl.looped,
                \* m_batch and m_batchCompletedToken are overwritten: a handler
                \* that was subscribed stays on the old batch.
                !.lostHandlers = IF pl.token THEN Min(@ + 1, 2) ELSE @,
                !.nStart = Min(@ + 1, 2),
                !.setPlaying = TRUE ]

\* CompleteAwaits: releases the coroutines that await the play.
CompleteAwaits(pl) == [ pl EXCEPT !.signalled = TRUE ]

\* The threads of the coroutine of a PlayAsync call: issuedOn runs the call;
\* calling_thread is the apartment_context it captures; completedOn releases
\* it from co_await *thisPlay, so it goes on there; endedOn runs it to its end.
NoCoroutine == [ issuedOn |-> "none", calling_thread |-> "none", completedOn |-> "none", endedOn |-> "none" ]

\* co_await on a thread and no more: the coroutine stays where it is.
ResumeOn_Current(calling_thread, current) == current

\* co_await calling_thread: the coroutine goes on in the captured apartment.
ResumeOn(calling_thread, current) == calling_thread

\* ------------------------------------------------------------- call stack
\* fn: the method; pc: where it is; p: the play it is about (for PlayAsync the
\* call; for Stop, SetProgress and the event handlers the play that was
\* current at entry); a, b, l: its arguments (for Complete b is the local
\* "me"; for the calls of the application b is the number of PlayAsync calls
\* made before, plus one); ver: the local "version" of PlayAsync; src: the
\* local "animatedVisual" of UpdateContent; dirty: the application has called
\* the player since entry; thread: the thread that runs the method.
Frame(fn, pc, p, a, b, l) ==
    [ fn |-> fn, pc |-> pc, p |-> p, a |-> a, b |-> b, l |-> l, ver |-> 0, src |-> "None",
      dirty |-> FALSE, thread |-> "dispatcher" ]
\* The frame f, run by the given thread.
On(f, thread) == [ f EXCEPT !.thread = thread ]
NotifyFrame(what) == Frame("Notify", what, 0, 0, 0, FALSE)

NoRet == [ fn |-> "none", p |-> 0, a |-> 0, b |-> 0, dirty |-> FALSE, top |-> FALSE ]
RetOf(f, top) == [ fn |-> f.fn, p |-> f.p, a |-> f.a, b |-> f.b, dirty |-> f.dirty, top |-> top ]
\* The methods whose return ret records.
Observed == {"PlayAsync", "SetProgress", "Stop", "Complete", "CompleteCurrentPlay",
             "OnSourcePropertyChanged", "UpdateContent", "OnLoaded", "OnUnloaded"}

\* The state the steps of the methods work on.
State ==
    [ plays |-> plays, calls |-> calls, coroutines |-> coroutines, nextCall |-> nextCall, m_nowPlaying |-> m_nowPlaying,
      m_playAsyncVersion |-> m_playAsyncVersion, Progress |-> Progress, anim |-> anim,
      IsPlaying |-> IsPlaying, Duration |-> Duration, Diagnostics |-> Diagnostics,
      IsAnimatedVisualLoaded |-> IsAnimatedVisualLoaded, AutoPlay |-> AutoPlay,
      PlaybackRate |-> PlaybackRate, Source |-> Source, m_animatedVisual |-> m_animatedVisual,
      m_animatedVisualRoot |-> m_animatedVisualRoot, m_isUnloaded |-> m_isUnloaded,
      stack |-> stack, failed |-> {}, ret |-> NoRet ]

Top(s) == Head(s.stack)
\* The stack after the top frame moves to pc.
Goto(s, pc) == << [ Top(s) EXCEPT !.pc = pc ] >> \o Tail(s.stack)
\* The stack after the top frame moves to pc and calls f.
GotoCall(s, pc, f) == << On(f, Top(s).thread), [ Top(s) EXCEPT !.pc = pc ] >> \o Tail(s.stack)
\* Setting a dependency property to a new value runs the callbacks of the
\* application; setting it to the value it has does not.
SetAndNotify(s, changed, pc, what) ==
    IF changed THEN GotoCall(s, pc, NotifyFrame(what)) ELSE Goto(s, pc)
\* The top frame returns.
Pop(s) ==
    [ s EXCEPT !.stack = Tail(@),
               !.ret = IF Top(s).fn \in Observed THEN RetOf(Top(s), Len(s.stack) = 1) ELSE @ ]

Idle == stack = << >>
InCallback == stack # << >> /\ Head(stack).fn = "Notify"
NotifyDepth == Cardinality({ i \in DOMAIN stack : stack[i].fn = "Notify" })
\* Application code may call the player when nothing runs, or from inside a
\* property-changed callback.
CanCall == Idle \/ (InCallback /\ NotifyDepth <= MaxReentry)
\* The stack after the application calls f, on the thread its callback runs
\* on: every method already running has been re-entered.
UserCall(f) ==
    << IF stack # << >> THEN On(f, Head(stack).thread) ELSE f >>
        \o [ i \in DOMAIN stack |-> [ stack[i] EXCEPT !.dirty = TRUE ] ]

\* A play object lives while a shared_ptr holds it: m_nowPlaying, thisPlay of
\* the PlayAsync coroutine, or the copy "me" made by a running Complete.
Alive(p) ==
    /\ plays[p].created
    /\ ~plays[p].destroyed
    /\ \/ m_nowPlaying = p
       \/ calls[p] # "done"
       \/ \E i \in DOMAIN stack : stack[i].fn = "Complete" /\ stack[i].b = p

\* A play that never finds itself current.
IsCurrentPlay_Never(s, p) == FALSE

\* A play that always finds itself current.
IsCurrentPlay_Always(s, p) == TRUE

\* AnimationPlay::IsCurrentPlay
IsCurrentPlay(s, p) == s.m_nowPlaying = p

\* --------------------------------------- the steps of the methods, on State
\* AnimationPlay::Start
Start_Enter(s) ==
    LET p == Top(s).p
        pl == s.plays[p]
        s1 == [ s EXCEPT !.failed = IF pl.controller THEN @ \cup {"Start: !m_controller"} ELSE @ ]
    IN  IF IsTooShort(pl.playDuration)
        THEN [ s1 EXCEPT !.plays[p].nStart = Min(@ + 1, 2),
                         !.stack = GotoCall(s, "Return",
                                            Frame("SetProgress", "Enter", s.m_nowPlaying, pl.from, s.nextCall, FALSE)) ]
        ELSE [ s1 EXCEPT !.plays[p] = PlayStartAnimation(pl, s.PlaybackRate),
                         !.anim = p,
                         !.Progress = IF s.PlaybackRate < 0 THEN pl.to ELSE pl.from,
                         !.IsPlaying = TRUE,
                         !.stack = SetAndNotify(s, ~s.IsPlaying, "Return", "IsPlaying") ]

\* Complete that sets IsPlaying to false and leaves the play current.
Complete_Enter_KeepCurrent(s) ==
    LET p == Top(s).p
        s1 == [ s EXCEPT !.plays[p].token = FALSE, !.plays[p].nComplete = Min(@ + 1, 2) ]
    IN  IF IsCurrentPlay(s, p)
        THEN [ s1 EXCEPT !.IsPlaying = FALSE,
                         !.stack = SetAndNotify(s, s.IsPlaying, "Awaits", "IsPlaying") ]
        ELSE [ s1 EXCEPT !.stack = Goto(s, "Awaits") ]

\* Complete that disconnects the play and leaves IsPlaying as it is.
Complete_Enter_StillPlaying(s) ==
    LET p == Top(s).p
        s1 == [ s EXCEPT !.plays[p].token = FALSE, !.plays[p].nComplete = Min(@ + 1, 2) ]
    IN  IF IsCurrentPlay(s, p)
        THEN [ s1 EXCEPT !.m_nowPlaying = 0, !.stack = Goto(s, "Awaits") ]
        ELSE [ s1 EXCEPT !.stack = Goto(s, "Awaits") ]

\* AnimationPlay::Complete, up to and including m_owner.IsPlaying(false)
Complete_Enter(s) ==
    LET p == Top(s).p
        s1 == [ s EXCEPT !.plays[p].token = FALSE, !.plays[p].nComplete = Min(@ + 1, 2) ]
    IN  IF IsCurrentPlay(s, p)
        THEN [ s1 EXCEPT !.m_nowPlaying = 0,
                         !.IsPlaying = FALSE,
                         !.stack = SetAndNotify(s, s.IsPlaying, "Awaits", "IsPlaying") ]
        ELSE [ s1 EXCEPT !.stack = Goto(s, "Awaits") ]

\* AnimationPlay::Complete, the call of CompleteAwaits
Complete_Awaits(s) ==
    Pop([ s EXCEPT !.plays[Top(s).p] = CompleteAwaits(@),
                   !.coroutines[Top(s).p].completedOn =
                       IF s.calls[Top(s).p] = "awaiting" /\ ~s.plays[Top(s).p].signalled
                       THEN Top(s).thread ELSE @ ])

\* SetProgress that writes Progress and leaves the current play alone.
SetProgress_NoComplete(s) == Pop([ s EXCEPT !.Progress = Clamp(Top(s).a), !.anim = 0 ])

\* AnimatedVisualPlayer::SetProgress
SetProgress_Enter(s) ==
    LET s1 == [ s EXCEPT !.Progress = Clamp(Top(s).a), !.anim = 0 ]
    IN  IF s.m_nowPlaying # 0
        THEN [ s1 EXCEPT !.stack = GotoCall(s, "Return",
                                            Frame("Complete", "Enter", s.m_nowPlaying, 0, s.m_nowPlaying, FALSE)) ]
        ELSE Pop(s1)

\* Stop that sets Progress whether or not a play is current.
Stop_Enter_Always(s) ==
    [ s EXCEPT !.stack = GotoCall(s, "Return",
                                  Frame("SetProgress", "Enter", s.m_nowPlaying, StopProgress, s.nextCall, FALSE)) ]

\* AnimatedVisualPlayer::Stop
Stop_Enter(s) ==
    IF s.m_nowPlaying # 0
    THEN [ s EXCEPT !.stack = GotoCall(s, "Return",
                                       Frame("SetProgress", "Enter", s.m_nowPlaying, StopProgress, s.nextCall, FALSE)) ]
    ELSE Pop(s)

\* AnimatedVisualPlayer::CompleteCurrentPlay
CompleteCurrentPlay_Enter(s) ==
    [ s EXCEPT !.stack = IF s.m_nowPlaying # 0
                         THEN GotoCall(s, "Assert",
                                       Frame("Complete", "Enter", s.m_nowPlaying, 0, s.m_nowPlaying, FALSE))
                         ELSE Goto(s, "Assert") ]

\* AnimatedVisualPlayer::CompleteCurrentPlay, MUX_ASSERT(!m_nowPlaying)
CompleteCurrentPlay_Assert(s) ==
    Pop([ s EXCEPT !.failed = IF s.m_nowPlaying # 0
                              THEN @ \cup {"CompleteCurrentPlay: !m_nowPlaying"}
                              ELSE @ ])

\* AnimatedVisualPlayer::PlayAsync, up to the call of Stop
PlayAsync_Enter(s) ==
    [ s EXCEPT !.m_playAsyncVersion = @ + 1,
               !.calls[s.nextCall] = "running",
               !.nextCall = @ + 1,
               !.coroutines[s.nextCall].issuedOn = Top(s).thread,
               !.stack = << On(Frame("Stop", "Enter", s.m_nowPlaying, 0, s.nextCall, FALSE), Top(s).thread),
                            [ Top(s) EXCEPT !.pc = "Check", !.p = s.nextCall,
                                            !.ver = s.m_playAsyncVersion + 1 ] >>
                         \o Tail(s.stack) ]

\* PlayAsync without the reentrance test.
PlayAsync_Check_NoVersionTest(s) ==
    [ s EXCEPT !.stack = GotoCall(s, "Create",
                                  Frame("CompleteCurrentPlay", "Enter", s.m_nowPlaying, 0, 0, FALSE)) ]

\* AnimatedVisualPlayer::PlayAsync, the reentrance test and CompleteCurrentPlay
PlayAsync_Check(s) ==
    IF Top(s).ver # s.m_playAsyncVersion
    THEN Pop([ s EXCEPT !.calls[Top(s).p] = "done", !.coroutines[Top(s).p].endedOn = Top(s).thread ])
    ELSE [ s EXCEPT !.stack = GotoCall(s, "Create",
                                       Frame("CompleteCurrentPlay", "Enter", s.m_nowPlaying, 0, 0, FALSE)) ]

\* AnimatedVisualPlayer::PlayAsync, the adjustments, make_shared and Start
PlayAsync_Create(s) ==
    LET c == Top(s).p
        toProgress == AdjustTo(Top(s).a, Top(s).b)
        fromProgress == AdjustFrom(Top(s).a, toProgress)
    IN  [ s EXCEPT !.plays[c] = NewPlay(Top(s).a, Top(s).b, Clamp(fromProgress), Clamp(toProgress),
                                        Top(s).l, s.Duration),
                   !.failed = IF s.m_nowPlaying # 0 THEN @ \cup {"PlayAsync: m_nowPlaying overwritten"} ELSE @,
                   !.m_nowPlaying = c,
                   !.stack = IF s.IsAnimatedVisualLoaded
                             THEN GotoCall(s, "Await", Frame("Start", "Enter", c, 0, 0, FALSE))
                             ELSE Goto(s, "Await") ]

\* AnimatedVisualPlayer::PlayAsync, the capture of calling_thread and
\* co_await *thisPlay: the coroutine suspends and the IAsyncAction goes back to
\* the caller; if the play is completed already, the coroutine goes on where it is.
PlayAsync_Await(s) ==
    Pop([ s EXCEPT !.calls[Top(s).p] = "awaiting",
                   !.coroutines[Top(s).p].calling_thread = Top(s).thread,
                   !.coroutines[Top(s).p].completedOn =
                       IF s.plays[Top(s).p].signalled THEN Top(s).thread ELSE @ ])

\* AnimatedVisualPlayer::UnloadContent, up to the call of Stop
UnloadContent_Enter(s) ==
    IF s.m_animatedVisualRoot
    THEN [ s EXCEPT !.stack = GotoCall(s, "Remove", Frame("Stop", "Enter", s.m_nowPlaying, 0, s.nextCall, FALSE)) ]
    ELSE Pop(s)

\* AnimatedVisualPlayer::UnloadContent, removing the animated visual and Duration(0)
UnloadContent_Remove(s) ==
    [ s EXCEPT !.m_animatedVisualRoot = IF s.m_animatedVisual THEN FALSE ELSE @,
               !.m_animatedVisual = FALSE,
               !.Duration = 0,
               !.stack = SetAndNotify(s, s.Duration # 0, "Diagnostics", "Duration") ]

\* AnimatedVisualPlayer::UnloadContent, Diagnostics(nullptr)
UnloadContent_Diagnostics(s) ==
    [ s EXCEPT !.Diagnostics = FALSE,
               !.stack = SetAndNotify(s, s.Diagnostics, "Loaded", "Diagnostics") ]

\* AnimatedVisualPlayer::UnloadContent, IsAnimatedVisualLoaded(false)
UnloadContent_Loaded(s) ==
    [ s EXCEPT !.IsAnimatedVisualLoaded = FALSE,
               !.stack = SetAndNotify(s, s.IsAnimatedVisualLoaded, "Return", "IsAnimatedVisualLoaded") ]

\* AnimatedVisualPlayer::UpdateContent, the call of UnloadContent
UpdateContent_Enter(s) ==
    [ s EXCEPT !.stack = GotoCall(s, "Create", Frame("UnloadContent", "Enter", 0, 0, 0, FALSE)) ]

\* AnimatedVisualPlayer::UpdateContent, TryCreateAnimatedVisual and Diagnostics(diagnostics)
UpdateContent_Create(s) ==
    IF s.Source = "None"
    THEN Pop(s)
    ELSE [ s EXCEPT !.m_animatedVisual = (s.Source # "Bad"),
                    !.Diagnostics = TRUE,
                    !.stack = << On(NotifyFrame("Diagnostics"), Top(s).thread),
                                 [ Top(s) EXCEPT !.pc = "Hook", !.src = s.Source ] >>
                              \o Tail(s.stack) ]

\* AnimatedVisualPlayer::UpdateContent, from the test of animatedVisual to Duration(...)
UpdateContent_Hook(s) ==
    LET src == Top(s).src
    IN  IF src = "Bad"
        THEN [ s EXCEPT !.stack = GotoCall(s, "Return",
                                           Frame("CompleteCurrentPlay", "Enter", s.m_nowPlaying, 0, 0, FALSE)) ]
        ELSE IF src = "Empty"
        THEN Pop(s)
        ELSE [ s EXCEPT !.m_animatedVisualRoot = TRUE,
                        !.Duration = SourceDuration(src),
                        !.stack = SetAndNotify(s, s.Duration # SourceDuration(src), "Loaded", "Duration") ]

\* AnimatedVisualPlayer::UpdateContent, IsAnimatedVisualLoaded(true)
UpdateContent_Loaded(s) ==
    [ s EXCEPT !.IsAnimatedVisualLoaded = TRUE,
               !.stack = SetAndNotify(s, ~s.IsAnimatedVisualLoaded, "Play", "IsAnimatedVisualLoaded") ]

\* UpdateContent that issues the AutoPlay request whether or not a play is current.
UpdateContent_Play_AutoPlayFirst(s) ==
    IF s.AutoPlay
    THEN [ s EXCEPT !.stack = GotoCall(s, "Return", Frame("PlayAsync", "Enter", 0, 0, ProgressScale, TRUE)) ]
    ELSE IF s.m_nowPlaying # 0
    THEN [ s EXCEPT !.stack = GotoCall(s, "Return", Frame("Start", "Enter", s.m_nowPlaying, 0, 0, FALSE)) ]
    ELSE Pop(s)

\* UpdateContent that leaves a current play as it is.
UpdateContent_Play_NoStart(s) ==
    IF s.m_nowPlaying # 0
    THEN Pop(s)
    ELSE IF s.AutoPlay
    THEN [ s EXCEPT !.stack = GotoCall(s, "Return", Frame("PlayAsync", "Enter", 0, 0, ProgressScale, TRUE)) ]
    ELSE Pop(s)

\* AnimatedVisualPlayer::UpdateContent, starting the current play or the AutoPlay
UpdateContent_Play(s) ==
    IF s.m_nowPlaying # 0
    THEN [ s EXCEPT !.stack = GotoCall(s, "Return", Frame("Start", "Enter", s.m_nowPlaying, 0, 0, FALSE)) ]
    ELSE IF s.AutoPlay
    THEN [ s EXCEPT !.stack = GotoCall(s, "Return", Frame("PlayAsync", "Enter", 0, 0, ProgressScale, TRUE)) ]
    ELSE Pop(s)

\* AnimatedVisualPlayer::OnSourcePropertyChanged, the call of CompleteCurrentPlay
OnSourcePropertyChanged_Enter(s) ==
    [ s EXCEPT !.stack = GotoCall(s, "Update",
                                  Frame("CompleteCurrentPlay", "Enter", s.m_nowPlaying, 0, 0, FALSE)) ]

\* AnimatedVisualPlayer::OnSourcePropertyChanged, the call of UpdateContent
OnSourcePropertyChanged_Update(s) ==
    [ s EXCEPT !.stack = GotoCall(s, "Return", Frame("UpdateContent", "Enter", 0, 0, 0, FALSE)) ]

\* AnimatedVisualPlayer::OnLoaded, after UpdateContent
OnLoaded_Clear(s) == Pop([ s EXCEPT !.m_isUnloaded = FALSE ])

\* The next step of the method on top of the stack.
Step(s) ==
    LET fn == Top(s).fn
        pc == Top(s).pc
    IN  CASE pc = "Return" -> Pop(s)
          [] fn = "Start" /\ pc = "Enter" -> Start_Enter(s)
          [] fn = "Complete" /\ pc = "Enter" -> Complete_Enter(s)
          [] fn = "Complete" /\ pc = "Awaits" -> Complete_Awaits(s)
          [] fn = "SetProgress" /\ pc = "Enter" -> SetProgress_Enter(s)
          [] fn = "Stop" /\ pc = "Enter" -> Stop_Enter(s)
          [] fn = "CompleteCurrentPlay" /\ pc = "Enter" -> CompleteCurrentPlay_Enter(s)
          [] fn = "CompleteCurrentPlay" /\ pc = "Assert" -> CompleteCurrentPlay_Assert(s)
          [] fn = "PlayAsync" /\ pc = "Enter" -> PlayAsync_Enter(s)
          [] fn = "PlayAsync" /\ pc = "Check" -> PlayAsync_Check(s)
          [] fn = "PlayAsync" /\ pc = "Create" -> PlayAsync_Create(s)
          [] fn = "PlayAsync" /\ pc = "Await" -> PlayAsync_Await(s)
          [] fn = "UnloadContent" /\ pc = "Enter" -> UnloadContent_Enter(s)
          [] fn = "UnloadContent" /\ pc = "Remove" -> UnloadContent_Remove(s)
          [] fn = "UnloadContent" /\ pc = "Diagnostics" -> UnloadContent_Diagnostics(s)
          [] fn = "UnloadContent" /\ pc = "Loaded" -> UnloadContent_Loaded(s)
          [] fn = "UpdateContent" /\ pc = "Enter" -> UpdateContent_Enter(s)
          [] fn = "UpdateContent" /\ pc = "Create" -> UpdateContent_Create(s)
          [] fn = "UpdateContent" /\ pc = "Hook" -> UpdateContent_Hook(s)
          [] fn = "UpdateContent" /\ pc = "Loaded" -> UpdateContent_Loaded(s)
          [] fn = "UpdateContent" /\ pc = "Play" -> UpdateContent_Play(s)
          [] fn = "OnSourcePropertyChanged" /\ pc = "Enter" -> OnSourcePropertyChanged_Enter(s)
          [] fn = "OnSourcePropertyChanged" /\ pc = "Update" -> OnSourcePropertyChanged_Update(s)
          [] fn = "OnLoaded" /\ pc = "Clear" -> OnLoaded_Clear(s)

\* A PlayAsync beyond the bound of the model.
Stuck(s) ==
    /\ s.stack # << >>
    /\ Top(s).fn = "PlayAsync"
    /\ Top(s).pc = "Enter"
    /\ s.nextCall > MaxCalls

\* Nothing runs, or the application runs inside a property-changed callback.
Quiescent(s) == s.stack = << >> \/ Top(s).fn = "Notify" \/ Stuck(s)

\* The methods run until the stack is empty or a callback of the application runs.
RECURSIVE Run(_)
Run(s) == IF Quiescent(s) THEN s ELSE Run(Step(s))

\* The step of the model that starts in state s.
Do(s) ==
    \E r \in {Run(s)} :
        /\ ~Stuck(r)
        /\ plays' = r.plays
        /\ calls' = r.calls
        /\ coroutines' = r.coroutines
        /\ nextCall' = r.nextCall
        /\ m_nowPlaying' = r.m_nowPlaying
        /\ m_playAsyncVersion' = r.m_playAsyncVersion
        /\ Progress' = r.Progress
        /\ anim' = r.anim
        /\ IsPlaying' = r.IsPlaying
        /\ Duration' = r.Duration
        /\ Diagnostics' = r.Diagnostics
        /\ IsAnimatedVisualLoaded' = r.IsAnimatedVisualLoaded
        /\ AutoPlay' = r.AutoPlay
        /\ PlaybackRate' = r.PlaybackRate
        /\ Source' = r.Source
        /\ m_animatedVisual' = r.m_animatedVisual
        /\ m_animatedVisualRoot' = r.m_animatedVisualRoot
        /\ m_isUnloaded' = r.m_isUnloaded
        /\ stack' = r.stack
        /\ failed' = r.failed
        /\ ret' = r.ret
        /\ m_currentPlayFromProgress' = m_currentPlayFromProgress

\* ------------------------------------------------------------ construction
\* AnimatedVisualPlayer::AnimatedVisualPlayer; AutoPlay is set by the markup or left at
\* its default.
Init ==
    /\ plays = [ c \in CallIds |-> NoPlay ]
    /\ calls = [ c \in CallIds |-> "none" ]
    /\ coroutines = [ c \in CallIds |-> NoCoroutine ]
    /\ nextCall = 1
    /\ m_nowPlaying = 0
    /\ m_playAsyncVersion = 0
    /\ m_currentPlayFromProgress = 0
    /\ Progress = 0
    /\ anim = 0
    /\ IsPlaying = FALSE
    /\ Duration = 0
    /\ Diagnostics = FALSE
    /\ IsAnimatedVisualLoaded = FALSE
    /\ AutoPlay \in BOOLEAN
    /\ PlaybackRate = 1
    /\ Source = "None"
    /\ m_animatedVisual = FALSE
    /\ m_animatedVisualRoot = FALSE
    /\ m_isUnloaded = FALSE
    /\ stack = << >>
    /\ windowHidden = FALSE
    /\ inTree = FALSE
    /\ failed = {}
    /\ ret = NoRet

\* ------------------------------------------------ calls of the application
CallPlayAsync(from, to, looped) ==
    /\ CanCall
    /\ Do([ State EXCEPT !.stack = UserCall(Frame("PlayAsync", "Enter", 0, from, to, looped)) ])
    /\ UNCHANGED << windowHidden, inTree >>

CallSetProgress(progress) ==
    /\ CanCall
    /\ Do([ State EXCEPT !.stack = UserCall(Frame("SetProgress", "Enter", m_nowPlaying, progress, nextCall, FALSE)) ])
    /\ UNCHANGED << windowHidden, inTree >>

CallStop ==
    /\ CanCall
    /\ Do([ State EXCEPT !.stack = UserCall(Frame("Stop", "Enter", m_nowPlaying, 0, nextCall, FALSE)) ])
    /\ UNCHANGED << windowHidden, inTree >>

\* AnimatedVisualPlayer::Pause
Pause ==
    /\ CanCall
    /\ Do([ State EXCEPT !.plays = IF m_nowPlaying # 0
                                   THEN [ plays EXCEPT ![m_nowPlaying] = PlayPause(@) ]
                                   ELSE plays ])
    /\ UNCHANGED << windowHidden, inTree >>

\* AnimatedVisualPlayer::Resume
Resume ==
    /\ CanCall
    /\ Do([ State EXCEPT !.plays = IF m_nowPlaying # 0
                                   THEN [ plays EXCEPT ![m_nowPlaying] = PlayResume(@) ]
                                   ELSE plays ])
    /\ UNCHANGED << windowHidden, inTree >>

\* The PlaybackRate property is set: AnimatedVisualPlayer::OnPlaybackRatePropertyChanged
SetPlaybackRate(value) ==
    /\ CanCall
    /\ value # PlaybackRate
    /\ Do([ State EXCEPT !.PlaybackRate = value,
                         !.plays = IF m_nowPlaying # 0
                                   THEN [ plays EXCEPT ![m_nowPlaying] = PlaySetPlaybackRate(@, value) ]
                                   ELSE plays ])
    /\ UNCHANGED << windowHidden, inTree >>

\* The AutoPlay property is set: AnimatedVisualPlayer::OnAutoPlayPropertyChanged
SetAutoPlay(newValue) ==
    /\ CanCall
    /\ newValue # AutoPlay
    /\ Do([ State EXCEPT !.AutoPlay = newValue,
                         !.stack = IF newValue /\ IsAnimatedVisualLoaded /\ m_nowPlaying = 0
                                   THEN UserCall(Frame("PlayAsync", "Enter", 0, 0, ProgressScale, TRUE))
                                   ELSE stack ])
    /\ UNCHANGED << windowHidden, inTree >>

\* The Source property is set: AnimatedVisualPlayer::OnSourcePropertyChanged
SetSource(newSource) ==
    /\ CanCall
    /\ newSource # Source
    /\ Do([ State EXCEPT !.Source = newSource,
                         !.stack = UserCall(Frame("OnSourcePropertyChanged", "Enter", m_nowPlaying, 0, nextCall, FALSE)) ])
    /\ UNCHANGED << windowHidden, inTree >>

\* A property-changed callback of the application returns: the methods it
\* interrupted run on.
NotifyReturn ==
    /\ InCallback
    /\ Do([ State EXCEPT !.stack = Tail(stack) ])
    /\ UNCHANGED << windowHidden, inTree >>

\* ------------------------------------------------------ events of the host
\* AnimatedVisualPlayer::OnHiding (Suspending, or the window becomes invisible)
OnHiding ==
    /\ Idle
    /\ ~windowHidden
    /\ windowHidden' = TRUE
    /\ Do([ State EXCEPT !.plays = IF m_nowPlaying # 0
                                   THEN [ plays EXCEPT ![m_nowPlaying] = PlayOnHiding(@) ]
                                   ELSE plays ])
    /\ UNCHANGED inTree

\* AnimatedVisualPlayer::OnUnhiding (Resuming, or the window becomes visible)
OnUnhiding ==
    /\ Idle
    /\ windowHidden
    /\ windowHidden' = FALSE
    /\ Do([ State EXCEPT !.plays = IF m_nowPlaying # 0
                                   THEN [ plays EXCEPT ![m_nowPlaying] = PlayOnUnhiding(@) ]
                                   ELSE plays ])
    /\ UNCHANGED inTree

\* AnimatedVisualPlayer::OnLoaded
OnLoaded ==
    /\ Idle
    /\ ~inTree
    /\ inTree' = TRUE
    /\ Do([ State EXCEPT !.stack = IF m_isUnloaded
                                   THEN << Frame("UpdateContent", "Enter", 0, 0, 0, FALSE),
                                           Frame("OnLoaded", "Clear", m_nowPlaying, 0, nextCall, FALSE) >>
                                   ELSE << Frame("OnLoaded", "Return", m_nowPlaying, 0, nextCall, FALSE) >> ])
    /\ UNCHANGED windowHidden

\* AnimatedVisualPlayer::OnUnloaded
OnUnloaded ==
    /\ Idle
    /\ inTree
    /\ inTree' = FALSE
    /\ Do([ State EXCEPT !.m_isUnloaded = TRUE,
                         !.stack = << Frame("UnloadContent", "Enter", 0, 0, 0, FALSE),
                                      Frame("OnUnloaded", "Return", m_nowPlaying, 0, nextCall, FALSE) >> ])
    /\ UNCHANGED windowHidden

\* The AnimatedVisualInvalidated handler that OnSourcePropertyChanged subscribes
AnimatedVisualInvalidated ==
    /\ Idle
    /\ Source # "None"
    /\ Do([ State EXCEPT !.stack = << Frame("UpdateContent", "Enter", m_nowPlaying, 0, nextCall, FALSE) >> ])
    /\ UNCHANGED << windowHidden, inTree >>

\* The Completed handler that Start subscribes to m_batch: the animation of a
\* play that does not loop has ended, or has been stopped or replaced.
BatchCompletedOn(p, thread) ==
    /\ Idle
    /\ plays[p].token
    /\ anim # p \/ ~plays[p].ctrlPaused
    /\ Do([ State EXCEPT !.anim = IF anim = p THEN 0 ELSE anim,
                         !.Progress = IF anim = p
                                      THEN (IF plays[p].ctrlRate < 0 THEN plays[p].from ELSE plays[p].to)
                                      ELSE Progress,
                         !.stack = << On(Frame("Complete", "Enter", p, 0, m_nowPlaying, FALSE), thread) >> ])
    /\ UNCHANGED << windowHidden, inTree >>

\* The same handler, run by the dispatcher thread.
BatchCompleted(p) == BatchCompletedOn(p, "dispatcher")

\* The Completed handler of a batch that a second Start has replaced: its
\* token is lost, so Complete has not unsubscribed it.  It calls Complete on
\* the play it captured; if that play is destroyed this is undefined: either
\* nothing of the player is touched, or the memory is that of the current play.
LostBatchCompleted(p) ==
    /\ Idle
    /\ plays[p].lostHandlers > 0
    /\ \E target \in {p} \cup (IF Alive(p) THEN {} ELSE {0, m_nowPlaying}) :
          /\ Alive(p) \/ target # p
          /\ Do([ State EXCEPT !.plays[p].lostHandlers = @ - 1,
                               !.failed = IF Alive(p) THEN {} ELSE {"Complete: destroyed play"},
                               !.stack = IF target # 0
                                         THEN << Frame("Complete", "Enter", target, 0, m_nowPlaying, FALSE) >>
                                         ELSE stack ])
    /\ UNCHANGED << windowHidden, inTree >>

\* The key frame animation writes Progress.
AnimationAdvance ==
    /\ Idle
    /\ anim # 0
    /\ ~plays[anim].ctrlPaused
    /\ \E v \in KeyFrameValues(plays[anim]) \ {Progress} : Do([ State EXCEPT !.Progress = v ])
    /\ UNCHANGED << windowHidden, inTree >>

\* AnimatedVisualPlayer::PlayAsync after co_await: the coroutine resumes on the
\* calling thread and ends; thisPlay is released and the IAsyncAction completes.
PlayAsync_Resume(c) ==
    /\ Idle
    /\ calls[c] = "awaiting"
    /\ plays[c].signalled
    /\ Do([ State EXCEPT !.calls[c] = "done",
                         !.coroutines[c].endedOn = ResumeOn(coroutines[c].calling_thread, coroutines[c].completedOn),
                         !.plays[c] = IF m_nowPlaying = c THEN @ ELSE Destroyed(@, anim = c) ])
    /\ UNCHANGED << windowHidden, inTree >>

\* ------------------------------------------------------------ specification
\* The PlayAsync requests and SetProgress arguments of the specification Spec.
Requests == { << 1, ProgressScale, FALSE >>, << 0, ProgressScale, TRUE >> }
SetProgressArgs == { 1, ProgressScale + 1 }
AllRequests == ProgressArgs \X ProgressArgs \X BOOLEAN
\* The application makes another PlayAsync call (specifications without re-entrance).
MayCall == Idle /\ nextCall <= MaxSerialCalls

\* Play control re-entered from property-changed callbacks, over content that
\* is loaded once.
Next ==
    \/ \E r \in Requests : CallPlayAsync(r[1], r[2], r[3])
    \/ \E progress \in SetProgressArgs : CallSetProgress(progress)
    \/ CallStop
    \/ Idle /\ SetSource("Long")
    \/ \E p \in CallIds : BatchCompleted(p)
    \/ \E p \in CallIds : LostBatchCompleted(p)
    \/ \E c \in CallIds : PlayAsync_Resume(c)
    \/ NotifyReturn

Spec == Init /\ [][Next]_vars

\* Pausing, resuming, visibility and playback rate.
NextPause ==
    \/ \E r \in Requests : MayCall /\ CallPlayAsync(r[1], r[2], r[3])
    \/ Idle /\ CallStop
    \/ Idle /\ Pause
    \/ Idle /\ Resume
    \/ OnHiding
    \/ OnUnhiding
    \/ \E value \in PlaybackRates : Idle /\ SetPlaybackRate(value)
    \/ Idle /\ SetSource("Long")
    \/ \E p \in CallIds : BatchCompleted(p)
    \/ \E c \in CallIds : PlayAsync_Resume(c)
    \/ AnimationAdvance
    \/ NotifyReturn

SpecPause == Init /\ [][NextPause]_vars

\* Every PlayAsync request, over content of a short and of a long duration.
NextArgs ==
    \/ \E r \in AllRequests : MayCall /\ CallPlayAsync(r[1], r[2], r[3])
    \/ \E newSource \in {"Short", "Long"} : Idle /\ SetSource(newSource)
    \/ \E c \in CallIds : PlayAsync_Resume(c)
    \/ NotifyReturn

SpecArgs == Init /\ [][NextArgs]_vars

\* The life of the player in the tree: content, AutoPlay, loading and unloading.
NextLifetime ==
    \/ MayCall /\ CallPlayAsync(0, ProgressScale, FALSE)
    \/ Idle /\ CallSetProgress(1)
    \/ Idle /\ CallStop
    \/ \E newValue \in BOOLEAN : Idle /\ SetAutoPlay(newValue)
    \/ \E newSource \in {"None", "Long", "Bad"} : Idle /\ SetSource(newSource)
    \/ OnLoaded
    \/ OnUnloaded
    \/ AnimatedVisualInvalidated
    \/ \E p \in CallIds : BatchCompleted(p)
    \/ \E c \in CallIds : PlayAsync_Resume(c)
    \/ NotifyReturn

SpecLifetime == Init /\ [][NextLifetime]_vars

\* The playback rate set between the calls and from the callbacks, also while
\* the content is being loaded.
NextRate ==
    \/ \E r \in Requests : nextCall <= MaxSerialCalls /\ CallPlayAsync(r[1], r[2], r[3])
    \/ \E value \in PlaybackRates : SetPlaybackRate(value)
    \/ Idle /\ CallStop
    \/ Idle /\ SetSource("Long")
    \/ \E p \in CallIds : BatchCompleted(p)
    \/ \E c \in CallIds : PlayAsync_Resume(c)
    \/ AnimationAdvance
    \/ NotifyReturn

SpecRate == Init /\ [][NextRate]_vars

\* The batch-completed signal on either thread, and calls made from the
\* callbacks it runs.
NextThreads ==
    \/ \E r \in Requests : CanCall /\ nextCall <= MaxSerialCalls /\ CallPlayAsync(r[1], r[2], r[3])
    \/ Idle /\ CallStop
    \/ Idle /\ SetSource("Long")
    \/ \E p \in CallIds, thread \in Threads : BatchCompletedOn(p, thread)
    \/ \E c \in CallIds : PlayAsync_Resume(c)
    \/ NotifyReturn

SpecThreads == Init /\ [][NextThreads]_vars

\* The Source changed while a play runs, with PlayAsync called from the
\* callbacks.
NextReload ==
    \/ \E r \in Requests : CallPlayAsync(r[1], r[2], r[3])
    \/ \E newSource \in {"Long", "Bad"} : Idle /\ SetSource(newSource)
    \/ \E p \in CallIds : BatchCompleted(p)
    \/ \E c \in CallIds : PlayAsync_Resume(c)
    \/ NotifyReturn

SpecReload == Init /\ [][NextReload]_vars

\* Everything that writes Progress: PlayAsync over every range, SetProgress
\* with arguments outside [0,1], either playback rate, and the animation of
\* the play.
NextProgress ==
    \/ \E from, to \in ProgressArgs : MayCall /\ CallPlayAsync(from, to, FALSE)
    \/ \E progress \in {0 - 1, ProgressScale + 1} : Idle /\ CallSetProgress(progress)
    \/ \E value \in PlaybackRates : Idle /\ SetPlaybackRate(value)
    \/ Idle /\ SetSource("Long")
    \/ \E p \in CallIds : BatchCompleted(p)
    \/ \E c \in CallIds : PlayAsync_Resume(c)
    \/ AnimationAdvance
    \/ NotifyReturn

SpecProgress == Init /\ [][NextProgress]_vars

\* ------------------------------------------------------------------ claims
\* A play object that exists.
Made(p) == plays[p].created /\ ~plays[p].destroyed
\* The PlayAsync call c is running: it has a frame on the stack.
OnStack(c) == \E i \in DOMAIN stack : stack[i].fn = "PlayAsync" /\ stack[i].pc # "Enter" /\ stack[i].p = c
\* std::clamp(x, 0, 1), spelled out.
Clamped(x) == IF x < 0 THEN 0 ELSE IF x > ProgressScale THEN ProgressScale ELSE x
\* The part of the timeline the play (from, to) covers, spelled out.
Range(from, to) == IF from <= to THEN to - from ELSE (ProgressScale - from) + to

\* C1: in every state, also inside property-changed callbacks, a play that has
\* been created and not completed is the one m_nowPlaying refers to, and
\* PlayAsync never overwrites a non-null m_nowPlaying.
C1_OneUncompletedPlay ==
    /\ \A p \in CallIds : Made(p) /\ plays[p].nComplete = 0 => m_nowPlaying = p
    /\ "PlayAsync: m_nowPlaying overwritten" \notin failed
\* Inside a callback, a re-entrant PlayAsync has replaced a completed play.
C1_Witness ==
    /\ InCallback
    /\ m_nowPlaying # 0
    /\ plays[m_nowPlaying].nComplete = 0
    /\ \E q \in CallIds : q # m_nowPlaying /\ Made(q) /\ plays[q].nComplete > 0

\* The methods after which no earlier play may be left running.
Terminators == {"Stop", "SetProgress", "OnSourcePropertyChanged", "OnUnloaded"}
\* C2: once Stop, SetProgress, a source change or the unloading of the player
\* has returned, every PlayAsync call made before it has been released (its
\* action completes), also when its play was installed without being started.
C2_ActionsComplete ==
    ret.top /\ ret.fn \in Terminators =>
        \A c \in CallIds : c < ret.b /\ calls[c] = "awaiting" => plays[c].signalled

\* C3: the effects of Complete happen at most once for every play.
C3_CompleteOnce == \A p \in CallIds : plays[p].nComplete <= 1

\* C4 (as amended): when SetProgress(p) returns and the application has not
\* called the player from a callback in between, Progress is p clamped to
\* [0,1], no play is current, IsPlaying is false and the awaiter of the play
\* that was current is released.
C4_SetProgressPost ==
    ret.fn = "SetProgress" /\ ~ret.dirty =>
        /\ Progress = Clamped(ret.a)
        /\ m_nowPlaying = 0
        /\ ~IsPlaying
        /\ ret.p # 0 => plays[ret.p].signalled
\* C4 as stated: the same after every return of SetProgress.
C4_Original ==
    ret.fn = "SetProgress" =>
        /\ Progress = Clamped(ret.a)
        /\ m_nowPlaying = 0
        /\ ~IsPlaying
        /\ ret.p # 0 => plays[ret.p].signalled
\* SetProgress beyond the range has ended a started looping play.
C4_Witness ==
    /\ ret.fn = "SetProgress"
    /\ ~ret.dirty
    /\ ret.a > ProgressScale
    /\ ret.p # 0
    /\ plays[ret.p].looped
    /\ plays[ret.p].nStart > 0
    /\ plays[ret.p].signalled

\* C5: when Stop returns, Progress is the fromProgress of the play that was
\* current, that play is completed and IsPlaying is false.
C5_StopRestoresFrom ==
    ret.fn = "Stop" /\ ~ret.dirty /\ ret.p # 0 =>
        /\ Progress = plays[ret.p].from
        /\ plays[ret.p].signalled
        /\ ~IsPlaying

C7_NewestRequestWins ==
    /\ m_nowPlaying # 0 => m_nowPlaying = m_playAsyncVersion
    /\ \A i \in DOMAIN stack :
          stack[i].fn = "PlayAsync" /\ stack[i].pc = "Check" /\ stack[i].ver # m_playAsyncVersion
              => ~plays[stack[i].p].created
    /\ \A c \in CallIds :
          c < nextCall /\ ~OnStack(c) =>
              /\ calls[c] \in {"awaiting", "done"}
              /\ ~plays[c].created => calls[c] = "done"
\* An overtaken call has returned and the nested request holds the current play.
C7_Witness ==
    /\ Idle
    /\ \E c \in CallIds :
          /\ c + 1 \in CallIds
          /\ calls[c] = "done"
          /\ ~plays[c].created
          /\ m_nowPlaying = c + 1
          /\ plays[c + 1].nStart > 0

\* Two plays made from the requests (f1, t1) and (f2, t2) with the same looped
\* flag over the same content.
Pair(p, q, f1, t1, f2, t2) ==
    /\ Made(p) /\ Made(q)
    /\ plays[p].reqFrom = f1 /\ plays[p].reqTo = t1
    /\ plays[q].reqFrom = f2 /\ plays[q].reqTo = t2
    /\ plays[p].looped = plays[q].looped
    /\ plays[p].ownerDuration = plays[q].ownerDuration
SamePlay(p, q) ==
    /\ plays[p].from = plays[q].from
    /\ plays[p].to = plays[q].to
    /\ plays[p].playDuration = plays[q].playDuration
\* C8: PlayAsync(x, 0, looped) makes the same play as PlayAsync(x, 1, looped)
\* for x in (0,1], and PlayAsync(1, y, looped) the same as PlayAsync(0, y, looped)
\* for y in (0,1].
C8_BoundaryRewrite ==
    \A p, q \in CallIds :
        /\ \A x \in 1..ProgressScale : Pair(p, q, x, 0, x, ProgressScale) => SamePlay(p, q)
        /\ \A y \in 1..ProgressScale : Pair(p, q, ProgressScale, y, 0, y) => SamePlay(p, q)
\* Both pairs of requests have been made over loaded content.
C8_Witness ==
    \E p, q \in CallIds :
        /\ plays[p].ownerDuration > 0
        /\ \/ Pair(p, q, 1, 0, 1, ProgressScale)
           \/ Pair(p, q, ProgressScale, 1, 0, 1)

C10_ShortPlayCompletesAtStart ==
    /\ \A p \in CallIds :
          Made(p) /\ plays[p].nStart > 0 /\ plays[p].playDuration < MinPlayTicks =>
              /\ plays[p].nComplete > 0
              /\ plays[p].signalled
              /\ m_nowPlaying # p
              /\ anim # p
              /\ ~plays[p].controller
              /\ ~plays[p].batch
              /\ ~plays[p].setPlaying
    /\ ret.fn = "PlayAsync" /\ Made(ret.p) /\ plays[ret.p].nStart > 0
           /\ plays[ret.p].playDuration < MinPlayTicks
        => Progress = plays[ret.p].from /\ ~IsPlaying
\* A play of 15 ms (half of content of 30.0001 ms) has been started.
C10_Witness ==
    /\ ret.fn = "PlayAsync"
    /\ Made(ret.p)
    /\ plays[ret.p].nStart > 0
    /\ plays[ret.p].playDuration > 0
    /\ plays[ret.p].playDuration < MinPlayTicks
    /\ plays[ret.p].from > 0
    /\ Progress = plays[ret.p].from

LoadedCallbacks(st) ==
    Cardinality({ i \in DOMAIN st : st[i].fn = "Notify" /\ st[i].pc = "IsAnimatedVisualLoaded" })
\* The callback of IsAnimatedVisualLoaded(true) returns to UpdateContent in this step.
HookedUp ==
    /\ InCallback
    /\ Head(stack).pc = "IsAnimatedVisualLoaded"
    /\ Len(stack) >= 2
    /\ stack[2].fn = "UpdateContent"
    /\ stack[2].pc = "Play"
    /\ LoadedCallbacks(stack') < LoadedCallbacks(stack)
\* C12: when UpdateContent has hooked up new content, it starts the current
\* play and issues no PlayAsync; with no current play and AutoPlay set it
\* issues exactly one PlayAsync(0, 1, looped = true); otherwise it makes no play.
C12_StartOrAutoPlay ==
    [][ HookedUp =>
          IF m_nowPlaying # 0
          THEN /\ nextCall' = nextCall
               /\ plays'[m_nowPlaying].nStart > plays[m_nowPlaying].nStart \/ plays[m_nowPlaying].nStart = 2
          ELSE IF AutoPlay
          THEN /\ nextCall' = nextCall + 1
               /\ plays'[nextCall].created
               /\ plays'[nextCall].reqFrom = 0
               /\ plays'[nextCall].reqTo = ProgressScale
               /\ plays'[nextCall].looped
               /\ plays'[nextCall].nStart = 1
               /\ m_nowPlaying' = nextCall
          ELSE /\ nextCall' = nextCall
               /\ m_nowPlaying' = 0
               /\ plays' = plays ]_vars
\* After a reload of the content the play of the AutoPlay request is current.
C12_Witness ==
    /\ ret.fn \in {"UpdateContent", "OnLoaded", "OnSourcePropertyChanged"}
    /\ ret.top
    /\ AutoPlay
    /\ IsAnimatedVisualLoaded
    /\ nextCall = ret.b + 1
    /\ m_nowPlaying = ret.b
    /\ plays[ret.b].looped
    /\ plays[ret.b].nStart = 1

\* The operation that runs, or that has just returned: the bottom of the stack.
Operation == IF stack # << >> THEN stack[Len(stack)].fn ELSE ret.fn
\* The operations that complete the current play: SetProgress, Stop, a
\* superseding PlayAsync, a source change, the unloading of the player and the
\* unloading of the content by UpdateContent (OnLoaded, AnimatedVisualInvalidated).
Completers ==
    {"SetProgress", "Stop", "PlayAsync", "OnSourcePropertyChanged", "OnUnloaded", "UpdateContent", "OnLoaded"}
\* C13: a looped play has no batch and no subscribed Completed handler, and a
\* started looped play stops being current only in a step of SetProgress,
\* Stop, PlayAsync, a source change or an unloading, never in the step of a
\* batch-completed signal.
C13_LoopedNeverBatchCompleted ==
    /\ [](\A p \in CallIds :
             Made(p) /\ plays[p].looped =>
                 ~plays[p].batch /\ ~plays[p].token /\ plays[p].lostHandlers = 0)
    /\ [][ \A p \in CallIds :
             Made(p) /\ plays[p].looped /\ plays[p].nStart > 0 /\ m_nowPlaying = p /\ m_nowPlaying' # p
                 => Operation' \in Completers ]_vars
\* A started looped play was current until Stop completed it.
C13_Witness ==
    /\ ret.fn = "Stop"
    /\ ret.top
    /\ ret.p # 0
    /\ Made(ret.p)
    /\ plays[ret.p].looped
    /\ plays[ret.p].nStart = 1
    /\ plays[ret.p].nComplete = 1
    /\ plays[ret.p].signalled

\* C14: the animation controller of a current play that has been started has
\* the PlaybackRate of the owner, whether the rate was set before the play
\* was made, after it was started, or again later.
C14_ControllerRate ==
    m_nowPlaying # 0 /\ plays[m_nowPlaying].controller =>
        plays[m_nowPlaying].ctrlRate = PlaybackRate
\* In the Duration callback of the content being loaded the application has
\* made a play, which is installed and not started, and has then reversed the
\* rate: the step before this state made no call that returns.
C14_Witness ==
    /\ InCallback
    /\ Head(stack).pc = "Duration"
    /\ Head(stack).dirty
    /\ m_nowPlaying # 0
    /\ plays[m_nowPlaying].nStart = 0
    /\ plays[m_nowPlaying].ownerDuration > 0
    /\ ~plays[m_nowPlaying].controller
    /\ ret = NoRet
    /\ PlaybackRate < 0

C16_UnloadedNoPlay == ret.fn = "OnUnloaded" /\ ret.top => m_nowPlaying = 0

\* C17: with no current play, a step of Pause, Resume, Stop, OnHiding,
\* OnUnhiding or of a PlaybackRate change leaves Progress, IsPlaying,
\* m_nowPlaying and m_playAsyncVersion as they are; and a play is not paused
\* when the PlayAsync that made and started it returns, whatever pause or
\* hiding went before.
C17_NoPlayNoEffect ==
    /\ [][ ( /\ m_nowPlaying = 0
             /\ \/ Pause
                \/ Resume
                \/ CallStop
                \/ OnHiding
                \/ OnUnhiding
                \/ \E value \in PlaybackRates : SetPlaybackRate(value) )
           => UNCHANGED << Progress, IsPlaying, m_nowPlaying, m_playAsyncVersion >> ]_vars
    /\ [](ret.fn = "PlayAsync" /\ ~ret.dirty /\ Made(ret.p) /\ plays[ret.p].controller =>
             /\ ~plays[ret.p].ctrlPaused
             /\ ~plays[ret.p].isPaused
             /\ ~plays[ret.p].isPausedBecauseHidden)
\* The window was hidden before the first play was made; that play runs.
C17_Witness ==
    /\ windowHidden
    /\ ret.fn = "PlayAsync"
    /\ ret.p = 1
    /\ m_nowPlaying = 1
    /\ plays[1].controller
    /\ ~plays[1].ctrlPaused
    /\ IsPlaying

\* C18: wherever the callback of IsPlaying(false) raised by Complete runs, and
\* until that Complete returns, m_nowPlaying is not the completing play; and
\* no Complete runs on a play on which a Complete is running already.
C18_DetachedBeforeNotify ==
    /\ \A i \in DOMAIN stack :
          stack[i].fn = "Complete" /\ stack[i].pc = "Awaits" => m_nowPlaying # stack[i].p
    /\ \A i, j \in DOMAIN stack :
          i < j /\ stack[i].fn = "Complete" /\ stack[j].fn = "Complete" => stack[i].p # stack[j].p
\* In the callback of IsPlaying(false) the application has called Stop, which
\* found no current play and has returned.
C18_Witness ==
    /\ InCallback
    /\ Head(stack).pc = "IsPlaying"
    /\ Len(stack) >= 2
    /\ stack[2].fn = "Complete"
    /\ stack[2].pc = "Awaits"
    /\ plays[stack[2].p].nComplete = 1
    /\ ret.fn = "Stop"
    /\ ret.p = 0
    /\ m_nowPlaying = 0

\* C19: the assertion !m_nowPlaying at the end of CompleteCurrentPlay holds
\* whenever it is reached.
C19_NoPlayAfterCompleteCurrentPlay == "CompleteCurrentPlay: !m_nowPlaying" \notin failed

\* C20: whenever no play is current, no animation drives Progress.
C20_NoPlayNoAnimation == m_nowPlaying = 0 => anim = 0

\* C21: Start is called at most once on a play, and never on a play that has
\* an animation controller already.
C21_StartOnce ==
    /\ \A p \in CallIds : plays[p].nStart <= 1
    /\ "Start: !m_controller" \notin failed

\* The step runs Complete, called by a Completed handler, on the play p while
\* p is not the current play of the player.
CompleteOfOther(p) ==
    /\ stack = << >>
    /\ p # m_nowPlaying
    /\ \/ ret'.fn = "Complete" /\ ret'.top /\ ret'.p = p
       \/ stack' # << >> /\ stack'[Len(stack')].fn = "Complete" /\ stack'[Len(stack')].p = p

\* C22: Complete on a play that is not the current play leaves m_nowPlaying and
\* IsPlaying as they are: it unsubscribes the Completed handler of that play
\* and releases the awaiters of that play, and nothing else of the player or
\* of another play changes.
C22_CompleteOfOtherPlay ==
    [][ \A p \in CallIds : CompleteOfOther(p) =>
          /\ m_nowPlaying' = m_nowPlaying
          /\ IsPlaying' = IsPlaying
          /\ stack' = << >>
          /\ << Progress, anim, Duration, IsAnimatedVisualLoaded, m_playAsyncVersion >>' =
                 << Progress, anim, Duration, IsAnimatedVisualLoaded, m_playAsyncVersion >>
          /\ ~plays'[p].token
          /\ plays'[p].signalled
          /\ \A q \in CallIds \ {p} : plays'[q] = plays[q] /\ coroutines'[q] = coroutines[q]
      ]_vars

\* Complete has run on play 1, called when play 2 was the current play: play 2
\* is still current and still playing.
C22_Witness ==
    /\ ret.fn = "Complete" /\ ret.top /\ ret.p = 1 /\ ret.b = 2
    /\ stack = << >>
    /\ m_nowPlaying = 2
    /\ IsPlaying
    /\ plays[1].signalled

\* C23: Progress is within [0,1] in every reachable state, every play is
\* constructed with fromProgress and toProgress within [0,1] whatever the
\* arguments of PlayAsync, and every key frame value of a play is its
\* fromProgress, its toProgress, 0 or 1.
C23_ProgressInRange ==
    /\ Progress \in 0..ProgressScale
    /\ \A p \in CallIds : plays[p].created =>
          /\ plays[p].from \in 0..ProgressScale
          /\ plays[p].to \in 0..ProgressScale
          /\ KeyFrameValues(plays[p]) \subseteq {plays[p].from, plays[p].to, 0, ProgressScale}

\* A play requested from below 0 to above 1 is animating and has taken Progress
\* to its last key frame, after a play requested with a wrapping range was
\* completed.
C23_Witness ==
    /\ \E p \in CallIds : /\ Made(p) /\ anim = p
                          /\ plays[p].reqFrom < 0 /\ plays[p].reqTo > ProgressScale
                          /\ Progress = plays[p].to
    /\ \E q \in CallIds : /\ plays[q].created /\ plays[q].nComplete > 0
                          /\ plays[q].reqFrom > plays[q].reqTo

\* C24: every play that PlayAsync constructs is in normalized form, whatever
\* the arguments: it never has toProgress = 0 with fromProgress > 0, and never
\* has fromProgress = 1 with toProgress > 0.
C24_Normalized ==
    \A p \in CallIds : plays[p].created =>
        /\ ~(plays[p].to = 0 /\ plays[p].from > 0)
        /\ ~(plays[p].from = ProgressScale /\ plays[p].to > 0)

\* C25: while the player is hidden, the animation controller of a current play
\* that has been started is paused.
C25_HiddenIsPaused ==
    (windowHidden /\ m_nowPlaying # 0 /\ plays[m_nowPlaying].controller)
        => plays[m_nowPlaying].ctrlPaused

\* C26: when a play over a range of non-zero length is started, its play
\* duration is the length of its range times the content duration in effect
\* at that moment.
C26_DurationAtStart ==
    [][ \A p \in CallIds :
          (plays[p].nStart = 0 /\ plays'[p].nStart = 1 /\ plays'[p].from # plays'[p].to)
          => plays'[p].playDuration = PlayDuration(plays'[p].from, plays'[p].to, Duration')
      ]_vars

\* C27: wherever the application can observe the player (between the
\* operations and inside a property-changed callback), IsPlaying is true
\* exactly if there is a current play that has been started over a duration at
\* or above the threshold.
C27_IsPlayingIffStarted ==
    (Idle \/ InCallback) =>
        (IsPlaying <=> /\ m_nowPlaying # 0
                       /\ plays[m_nowPlaying].nStart > 0
                       /\ ~IsTooShort(plays[m_nowPlaying].playDuration))

\* Inside the IsPlaying callback of Start: the current play has a controller
\* and IsPlaying is true, after an earlier play was started with a duration
\* below the threshold and completed at once.
C27_Witness ==
    /\ InCallback
    /\ Head(stack).pc = "IsPlaying"
    /\ IsPlaying
    /\ m_nowPlaying # 0
    /\ plays[m_nowPlaying].controller
    /\ \E q \in CallIds : /\ q # m_nowPlaying
                          /\ plays[q].nStart > 0
                          /\ IsTooShort(plays[q].playDuration)

====
